---- MODULE Spec2Model ----
(***************************************************************************)
(* Model of the currency-name codec (sdk-core/src/converter.ts) and of the *)
(* Token algebra (sdk-core/src/token.ts).                                  *)
(*                                                                         *)
(* A JavaScript string is a sequence of UTF-16 code units, modelled as a   *)
(* sequence of integers: "lp://" is <<108, 112, 58, 47, 47>>.  A call      *)
(* either returns a value or throws; both outcomes are values of the model *)
(* (Return / Throw), so that the kind of failure is part of the result.    *)
(***************************************************************************)
EXTENDS Integers, Sequences, FiniteSets, TLC

VARIABLES input, pc, name, ret,
          isReady, tokenRecord, meta, streams, obs, config,
          calls

\* the codec's and the Token algebra's variables, and the Wallet's
cvars == <<input, pc, name, ret>>

wvars == <<isReady, tokenRecord, meta, streams, obs, config>>

\* calls is the stack of the calls of inner (getDexShareCurrencyObject) when
\* the recursion is followed call by call
vars == <<cvars, wvars, calls>>

(***************************************************************************)
(* Outcomes of a call.                                                     *)
(***************************************************************************)
Return(v) == [tag |-> "return", val |-> v]

Throw(e, o) == [tag |-> "throw", err |-> e, origin |-> o]

IsReturn(r) == r.tag = "return"

IsThrow(r) == r.tag = "throw"

Threw(r, e) == r.tag = "throw" /\ r.err = e

(***************************************************************************)
(* The fixed strings of converter.ts, as code units.                       *)
(***************************************************************************)
\* 'lp://' (converter.ts:27, :31)
LP == <<108, 112, 58, 47, 47>>

\* '//' (converter.ts:22)
DoubleSlash == <<47, 47>>

\* String(undefined), what a template literal or encodeURIComponent makes of undefined
UndefinedStr == <<117, 110, 100, 101, 102, 105, 110, 101, 100>>

\* Object.prototype.toString of a plain object: "[object Object]"
ObjectStr == <<91, 111, 98, 106, 101, 99, 116, 32, 79, 98, 106, 101, 99, 116, 93>>

(***************************************************************************)
(* String primitives.                                                      *)
(***************************************************************************)
\* String.prototype.startsWith
StartsWith(s, p) == Len(s) >= Len(p) /\ SubSeq(s, 1, Len(p)) = p

\* the part of s after its first n code units
Drop(s, n) == SubSeq(s, n + 1, Len(s))

\* the 1-based positions at which sub occurs in s
Occurrences(s, sub) ==
  {i \in 1..(Len(s) - Len(sub) + 1) : SubSeq(s, i, i + Len(sub) - 1) = sub}

\* String.prototype.search with a literal pattern: 0-based index, -1 when absent
Search(s, sub) ==
  IF Occurrences(s, sub) = {} THEN -1
  ELSE (CHOOSE i \in Occurrences(s, sub) : \A j \in Occurrences(s, sub) : i <= j) - 1

\* the 1-based positions of '/' in s
Slashes(s) == {i \in 1..Len(s) : s[i] = 47}

(***************************************************************************)
(* encodeURIComponent (ECMAScript Encode with the uriUnreserved set).      *)
(***************************************************************************)
\* A-Z a-z 0-9 - _ . ! ~ * ' ( )
Unreserved(c) ==
  \/ (65 <= c /\ c <= 90)
  \/ (97 <= c /\ c <= 122)
  \/ (48 <= c /\ c <= 57)
  \/ c \in {45, 95, 46, 33, 126, 42, 39, 40, 41}

\* the upper-case hexadecimal digit of d, 0 <= d < 16
HexDigit(d) == IF d < 10 THEN 48 + d ELSE 55 + d

\* "%XX" for one octet
Escape(b) == <<37, HexDigit(b \div 16), HexDigit(b % 16)>>

IsHighSurrogate(c) == 55296 <= c /\ c <= 56319

IsLowSurrogate(c) == 56320 <= c /\ c <= 57343

\* the UTF-8 octets of code point v, each escaped
EscapeCodePoint(v) ==
  IF v < 128 THEN Escape(v)
  ELSE IF v < 2048 THEN Escape(192 + (v \div 64)) \o Escape(128 + (v % 64))
  ELSE IF v < 65536 THEN
    Escape(224 + (v \div 4096)) \o Escape(128 + ((v \div 64) % 64)) \o Escape(128 + (v % 64))
  ELSE
    Escape(240 + (v \div 262144)) \o Escape(128 + ((v \div 4096) % 64))
      \o Escape(128 + ((v \div 64) % 64)) \o Escape(128 + (v % 64))

\* whether encodeURIComponent(s) throws URIError: s holds an unpaired surrogate
RECURSIVE EncodeThrows(_)
EncodeThrows(s) ==
  IF s = <<>> THEN FALSE
  ELSE IF IsLowSurrogate(s[1]) THEN TRUE
  ELSE IF IsHighSurrogate(s[1]) THEN
    IF Len(s) >= 2 /\ IsLowSurrogate(s[2]) THEN EncodeThrows(Drop(s, 2)) ELSE TRUE
  ELSE EncodeThrows(Drop(s, 1))

\* encodeURIComponent(s) for a string on which it does not throw
RECURSIVE EncodeStr(_)
EncodeStr(s) ==
  IF s = <<>> THEN <<>>
  ELSE IF Unreserved(s[1]) THEN <<s[1]>> \o EncodeStr(Drop(s, 1))
  ELSE IF IsHighSurrogate(s[1]) THEN
    EscapeCodePoint(65536 + (s[1] - 55296) * 1024 + (s[2] - 56320)) \o EncodeStr(Drop(s, 2))
  ELSE EscapeCodePoint(s[1]) \o EncodeStr(Drop(s, 1))

encodeURIComponent(s) ==
  IF EncodeThrows(s) THEN Throw("URIError", s) ELSE Return(EncodeStr(s))

(***************************************************************************)
(* decodeURIComponent (ECMAScript Decode with an empty reserved set).      *)
(***************************************************************************)
IsHex(c) == (48 <= c /\ c <= 57) \/ (65 <= c /\ c <= 70) \/ (97 <= c /\ c <= 102)

HexVal(c) == IF c <= 57 THEN c - 48 ELSE IF c <= 70 THEN c - 55 ELSE c - 87

\* s holds a well-formed "%XX" at position k
EscapeAt(s, k) == k + 2 <= Len(s) /\ s[k] = 37 /\ IsHex(s[k + 1]) /\ IsHex(s[k + 2])

OctetAt(s, k) == 16 * HexVal(s[k + 1]) + HexVal(s[k + 2])

\* the length of the UTF-8 sequence a leading octet announces, 0 when it cannot lead
SeqLen(b) ==
  IF b < 128 THEN 1
  ELSE IF 192 <= b /\ b <= 223 THEN 2
  ELSE IF 224 <= b /\ b <= 239 THEN 3
  ELSE IF 240 <= b /\ b <= 247 THEN 4
  ELSE 0

IsContinuation(b) == 128 <= b /\ b <= 191

\* the n escaped octets starting at k are all present, the last n-1 continuations
OctetsAt(s, k, n) ==
  \A i \in 0..(n - 1) :
    /\ EscapeAt(s, k + 3 * i)
    /\ (i > 0 => IsContinuation(OctetAt(s, k + 3 * i)))

\* the code point the n escaped octets at k encode
CodePointAt(s, k, n) ==
  LET o(i) == OctetAt(s, k + 3 * i)
  IN  IF n = 1 THEN o(0)
      ELSE IF n = 2 THEN (o(0) - 192) * 64 + (o(1) - 128)
      ELSE IF n = 3 THEN (o(0) - 224) * 4096 + (o(1) - 128) * 64 + (o(2) - 128)
      ELSE (o(0) - 240) * 262144 + (o(1) - 128) * 4096 + (o(2) - 128) * 64 + (o(3) - 128)

\* not overlong, not a surrogate, not beyond U+10FFFF
ValidCodePoint(v, n) ==
  /\ (n = 2 => v >= 128)
  /\ (n = 3 => v >= 2048 /\ ~(55296 <= v /\ v <= 57343))
  /\ (n = 4 => v >= 65536 /\ v <= 1114111)

\* a valid escape sequence starts at k
GoodEscapeAt(s, k) ==
  /\ EscapeAt(s, k)
  /\ LET n == SeqLen(OctetAt(s, k))
     IN  n > 0 /\ OctetsAt(s, k, n) /\ ValidCodePoint(CodePointAt(s, k, n), n)

\* the code units of code point v
CodeUnits(v) ==
  IF v < 65536 THEN <<v>>
  ELSE <<55296 + ((v - 65536) \div 1024), 56320 + ((v - 65536) % 1024)>>

\* whether decodeURIComponent(s) throws URIError: a '%' that starts no valid escape
RECURSIVE DecodeThrows(_)
DecodeThrows(s) ==
  IF s = <<>> THEN FALSE
  ELSE IF s[1] # 37 THEN DecodeThrows(Drop(s, 1))
  ELSE IF ~GoodEscapeAt(s, 1) THEN TRUE
  ELSE DecodeThrows(Drop(s, 3 * SeqLen(OctetAt(s, 1))))

\* decodeURIComponent(s) for a string on which it does not throw
RECURSIVE DecodeStr(_)
DecodeStr(s) ==
  IF s = <<>> THEN <<>>
  ELSE IF s[1] # 37 THEN <<s[1]>> \o DecodeStr(Drop(s, 1))
  ELSE LET n == SeqLen(OctetAt(s, 1))
       IN  CodeUnits(CodePointAt(s, 1, n)) \o DecodeStr(Drop(s, 3 * n))

decodeURIComponent(s) ==
  IF DecodeThrows(s) THEN Throw("URIError", s) ELSE Return(DecodeStr(s))

(***************************************************************************)
(* converter.ts                                                            *)
(***************************************************************************)
isBasicToken(n) == Search(n, DoubleSlash) < 0

\* createDexShareName with the legs joined as they are, not percent-encoded
createDexShareNameRaw(name1, name2) == Return(LP \o name1 \o <<47>> \o name2)

\* `lp://${encodeURIComponent(name1)}/${encodeURIComponent(name2)}`
createDexShareName(name1, name2) ==
  LET e1 == encodeURIComponent(name1)
      e2 == encodeURIComponent(name2)
  IN  IF IsThrow(e1) THEN e1
      ELSE IF IsThrow(e2) THEN e2
      ELSE Return(LP \o e1.val \o <<47>> \o e2.val)

isDexShareName(n) == StartsWith(n, LP)

\* a capture group of a RegExp match: the text it matched, or undefined when it
\* took no part in the match
Captured(s) == [matched |-> TRUE, text |-> s]

NotCaptured == [matched |-> FALSE]

\* ToString of a capture: String(undefined) is "undefined"
CaptureToString(g) == IF g.matched THEN g.text ELSE UndefinedStr

\* the pattern with a second group that also takes '/': /^lp:\/\/([^/]*)?\/(.*)$/
RegExecLoose(n) ==
  LET rest == Drop(n, Len(LP))
  IN  IF ~StartsWith(n, LP) \/ Slashes(rest) = {} THEN <<>>
      ELSE LET p == CHOOSE i \in Slashes(rest) : \A j \in Slashes(rest) : i <= j
               g1 == SubSeq(rest, 1, p - 1)
           IN  <<IF g1 = <<>> THEN NotCaptured ELSE Captured(g1), Captured(Drop(rest, p))>>

\* /^lp:\/\/([^/]*)?\/([^/]*)$/.exec(n): <<>> for null, else the two captures.
\* Group 1 runs up to the first '/' after the prefix; group 2 is the rest and must
\* hold no '/'.  The optional group 1 is left undefined when it would match the
\* empty string (RepeatMatcher rejects an empty iteration of a `?` group).
RegExec(n) ==
  LET rest == Drop(n, Len(LP))
  IN  IF ~StartsWith(n, LP) \/ Slashes(rest) = {} THEN <<>>
      ELSE LET p == CHOOSE i \in Slashes(rest) : \A j \in Slashes(rest) : i <= j
               g1 == SubSeq(rest, 1, p - 1)
               g2 == Drop(rest, p)
           IN  IF Slashes(g2) # {} THEN <<>>
               ELSE <<IF g1 = <<>> THEN NotCaptured ELSE Captured(g1), Captured(g2)>>

unzipDexShareName(n) ==
  IF ~isDexShareName(n) THEN Throw("NotDexShareName", n)
  ELSE LET result == RegExec(n)
       IN  IF result = <<>> THEN Throw("NotDexShareName", n)
           ELSE LET d1 == decodeURIComponent(CaptureToString(result[1]))
                    d2 == decodeURIComponent(CaptureToString(result[2]))
                IN  IF IsThrow(d1) THEN d1
                    ELSE IF IsThrow(d2) THEN d2
                    ELSE Return(<<d1.val, d2.val>>)

getBasicCurrencyObject(n) == [Token |-> n]

\* `inner` of getDexShareCurrencyObject
RECURSIVE inner(_)
inner(n) ==
  IF isDexShareName(n) THEN
    LET u == unzipDexShareName(n)
    IN  IF IsThrow(u) THEN u
        ELSE LET o1 == inner(u.val[1])
             IN  IF IsThrow(o1) THEN o1
                 ELSE LET o2 == inner(u.val[2])
                      IN  IF IsThrow(o2) THEN o2
                          ELSE Return([DexShare |-> <<o1.val, o2.val>>])
  ELSE Return(getBasicCurrencyObject(n))

getDexShareCurrencyObject(n) == inner(n)

getCurrencyObject(n) ==
  IF isDexShareName(n) THEN getDexShareCurrencyObject(n)
  ELSE Return(getBasicCurrencyObject(n))

(***************************************************************************)
(* MaybeCurrency values handed to forceToCurrencyName, and the values a     *)
(* caller can pass in spite of the declared type.                          *)
(***************************************************************************)
Str(s) == [kind |-> "string", str |-> s]

Arr(xs) == [kind |-> "array", items |-> xs]

Tok(t) == [kind |-> "Token", token |-> t]

\* CurrencyId codec values: isToken / isDexShare / isErc20, or another variant
IdToken(sym) == [kind |-> "CurrencyId", type |-> "Token", sym |-> sym]

IdDexShare(l, r) == [kind |-> "CurrencyId", type |-> "DexShare", legs |-> <<l, r>>]

IdErc20(addr) == [kind |-> "CurrencyId", type |-> "Erc20", addr |-> addr]

IdOther(s) == [kind |-> "CurrencyId", type |-> "Other", str |-> s]

\* a number or a plain object: toString() works and gives str
Num(s) == [kind |-> "number", str |-> s]

PlainObject == [kind |-> "object", str |-> ObjectStr]

\* null and undefined (no property can be read), Object.create(null) (no toString)
Null == [kind |-> "null"]

Undefined == [kind |-> "undefined"]

BareObject == [kind |-> "bare"]

\* target[i] of an array, as createDexShareName's template literal reads it
Item(t, i) == IF i <= Len(t.items) THEN t.items[i] ELSE UndefinedStr

\* origin.toString() throws TypeError
ToStringThrows(o) == o.kind \in {"null", "undefined", "bare"}

(***************************************************************************)
(* errors (class constructors): the message is built from                  *)
(* origin.toString(), so constructing the error can itself throw.          *)
(***************************************************************************)
ConvertToCurrencyNameFailed(o) ==
  IF ToStringThrows(o) THEN Throw("TypeError", o) ELSE Throw("ConvertToCurrencyNameFailed", o)

ConvertToCurrencyIdFailed(o) ==
  IF ToStringThrows(o) THEN Throw("TypeError", o) ELSE Throw("ConvertToCurrencyIdFailed", o)

\* the body of forceToCurrencyName's try block
RECURSIVE forceToCurrencyName(_)
TryCurrencyName(target) ==
  CASE target.kind = "string" -> Return(target.str)
    [] target.kind = "array" -> createDexShareName(Item(target, 1), Item(target, 2))
    [] target.kind = "Token" -> Return(target.token.name)
    [] target.kind = "CurrencyId" /\ target.type = "Token" -> Return(target.sym)
    [] target.kind = "CurrencyId" /\ target.type = "DexShare" ->
         LET n1 == forceToCurrencyName(target.legs[1])
             n2 == forceToCurrencyName(target.legs[2])
         IN  IF IsThrow(n1) THEN n1
             ELSE IF IsThrow(n2) THEN n2
             ELSE createDexShareName(n1.val, n2.val)
    [] target.kind = "CurrencyId" /\ target.type = "Erc20" -> Return(target.addr)
    [] target.kind = "CurrencyId" /\ target.type = "Other" -> Return(target.str)
    [] target.kind \in {"number", "object"} -> Return(target.str)
    [] target.kind \in {"null", "undefined"} -> Throw("TypeError", target)
    [] target.kind = "bare" -> Throw("TypeError", target)

forceToCurrencyName(target) ==
  LET r == TryCurrencyName(target)
  IN  IF IsThrow(r) THEN ConvertToCurrencyNameFailed(target) ELSE r

(***************************************************************************)
(* forceToCurrencyId.  api.createType is the ledger client's constructor:  *)
(* createTypeOk says whether it accepts the structure.  The catch block    *)
(* reads the free identifier `origin`, which is no binding of the function *)
(* or the module: it is the host's global (a string in a browser window or *)
(* worker) or does not exist (ReferenceError).                             *)
(***************************************************************************)
GlobalOrigin(s) == [declared |-> TRUE, value |-> Str(s)]

NoGlobalOrigin == [declared |-> FALSE]

forceToCurrencyId(createTypeOk, origin, target) ==
  LET n == forceToCurrencyName(target)
      o == getCurrencyObject(n.val)
      failed == IsThrow(n) \/ IsThrow(o) \/ ~createTypeOk
  IN  IF ~failed THEN Return([wire |-> o.val])
      ELSE IF ~origin.declared THEN Throw("ReferenceError", [kind |-> "none"])
      ELSE ConvertToCurrencyIdFailed(origin.value)

(***************************************************************************)
(* token.ts.  A Configs object is a record holding the keys that are set;  *)
(* FixedPointNumber values are modelled by their inner integer.            *)
(***************************************************************************)
\* TokenType (kinds in the order Basic, DexShare, Erc20), a numeric enum
BASIC == 0

DEX_SHARE == 1

ERC20 == 2

\* FixedPointNumber.ZERO
ZERO == 0

Has(configs, key) == key \in DOMAIN configs

\* new Token(name, configs): `a || b` takes b when a is undefined or falsy; a
\* number is falsy when 0, a string when empty, an object (ed) never
Token(n, configs) ==
  LET decimals ==
        IF Has(configs, "decimals") /\ configs.decimals # 0 THEN configs.decimals
        ELSE IF Has(configs, "decimal") /\ configs.decimal # 0 THEN configs.decimal
        ELSE 18
  IN  [name |-> n,
       decimals |-> decimals,
       decimal |-> decimals,
       ed |-> IF Has(configs, "ed") THEN configs.ed ELSE ZERO,
       chain |-> IF Has(configs, "chain") THEN <<configs.chain>> ELSE <<>>,
       type |-> IF Has(configs, "type") /\ configs.type # 0 THEN configs.type ELSE BASIC,
       symbol |-> IF Has(configs, "symbol") /\ configs.symbol # <<>> THEN configs.symbol ELSE n,
       display |-> IF Has(configs, "display") /\ configs.display # <<>> THEN configs.display ELSE n]

\* Token.create(name, configs)
create(n, configs) == Token(n, configs)

getCurrencyTypeByName(n) == IF isDexShareName(n) THEN DEX_SHARE ELSE BASIC

\* { ...configs, type }
WithType(configs, type) ==
  [k \in DOMAIN configs \cup {"type"} |-> IF k = "type" THEN type ELSE configs[k]]

fromCurrencyName(n, configs) == Token(n, WithType(configs, getCurrencyTypeByName(n)))

\* sortTokenByName(a, b) of ./sort-token: the canonical ordering of names, a
\* total order by code units; negative, zero or positive
RECURSIVE sortTokenByName(_, _)
sortTokenByName(a, b) ==
  IF a = <<>> /\ b = <<>> THEN 0
  ELSE IF a = <<>> THEN -1
  ELSE IF b = <<>> THEN 1
  ELSE IF a[1] < b[1] THEN -1
  ELSE IF a[1] > b[1] THEN 1
  ELSE sortTokenByName(Drop(a, 1), Drop(b, 1))

\* Array.prototype.sort((a, b) => sortTokenByName(a, b)) on names: stable
InsertName(sorted, n) ==
  LET before == {i \in 1..Len(sorted) : sortTokenByName(sorted[i], n) <= 0}
      k == Cardinality(before)
  IN  SubSeq(sorted, 1, k) \o <<n>> \o Drop(sorted, k)

RECURSIVE SortNames(_)
SortNames(names) ==
  IF names = <<>> THEN <<>>
  ELSE InsertName(SortNames(SubSeq(names, 1, Len(names) - 1)), names[Len(names)])

\* Token.sortTokenNames(...names)
sortTokenNames(names) == SortNames(names)

\* Object.keys(Object.fromEntries(entries)): each key once, in the order of its
\* first entry (the order is replaced by the sort that follows in every caller)
RECURSIVE Keys(_)
Keys(ks) ==
  IF ks = <<>> THEN <<>>
  ELSE LET front == Keys(SubSeq(ks, 1, Len(ks) - 1))
           k == ks[Len(ks)]
       IN  IF \E i \in 1..Len(front) : front[i] = k THEN front ELSE Append(front, k)

\* nameMap[key] of Object.fromEntries: the item of the last entry with that key
Lookup(ks, items, key) ==
  items[CHOOSE i \in 1..Len(ks) : ks[i] = key /\ \A j \in (i + 1)..Len(ks) : ks[j] # key]

\* Object.keys(nameMap).sort(...).map((name) => nameMap[name])
SortByName(ks, items) ==
  LET sorted == SortNames(Keys(ks))
  IN  [i \in 1..Len(sorted) |-> Lookup(ks, items, sorted[i])]

\* Token.sort(...tokens)
sort(tokens) == SortByName([i \in 1..Len(tokens) |-> tokens[i].name], tokens)

\* Token.sortCurrencies(...currencies): forceToCurrencyName of an item may throw
sortCurrencies(currencies) ==
  LET names == [i \in 1..Len(currencies) |-> forceToCurrencyName(currencies[i])]
      bad == {i \in 1..Len(currencies) : IsThrow(names[i])}
  IN  IF bad # {} THEN names[CHOOSE i \in bad : \A j \in bad : i <= j]
      ELSE Return(SortByName([i \in 1..Len(currencies) |-> names[i].val], currencies))

\* fromTokens that takes its arguments in the order given, without sorting them
fromTokensUnsorted(token1, token2) ==
  LET n == createDexShareName(token1.name, token2.name)
  IN  IF IsThrow(n) THEN n
      ELSE Return(Token(n.val, [decimals |-> token1.decimals,
                                type |-> DEX_SHARE,
                                ed |-> token1.ed]))

\* Token.fromTokens(token1, token2): with fewer than two sorted tokens _token2 is
\* undefined and reading _token2.name throws TypeError
fromTokens(token1, token2) ==
  LET sorted == sort(<<token1, token2>>)
  IN  IF Len(sorted) < 2 THEN Throw("TypeError", UndefinedStr)
      ELSE LET n == createDexShareName(sorted[1].name, sorted[2].name)
           IN  IF IsThrow(n) THEN n
               ELSE Return(Token(n.val, [decimals |-> sorted[1].decimals,
                                         type |-> DEX_SHARE,
                                         ed |-> sorted[1].ed]))

(***************************************************************************)
(* Bounds and the inputs drawn from them.                                  *)
(***************************************************************************)
\* nesting depth of the dex-share names that are composed and decoded
MaxDepth == 2

\* length of the text after the prefix in the strings handed to the decoder
MaxRawLen == 4

\* nesting depth of the native identities
MaxIdDepth == 2

\* length of the lists handed to the sort operations
MaxListLen == 2

\* "", "x", "/%:" and "é": empty, unreserved, reserved, and beyond ASCII
BaseNames == {<<>>, <<120>>, <<47, 37, 58>>, <<233>>}

\* names of nesting depth at most d: a base name, or a dex-share name with one
\* leg of depth at most d - 1 and one base leg
RECURSIVE Names(_)
Names(d) ==
  IF d = 0 THEN BaseNames
  ELSE BaseNames
         \cup {createDexShareName(a, b).val : a \in Names(d - 1), b \in BaseNames}
         \cup {createDexShareName(a, b).val : a \in BaseNames, b \in Names(d - 1)}

\* the legs handed to createDexShareName
Legs == Names(MaxDepth - 1)

\* x / % 2 F
RawAlphabet == {120, 47, 37, 50, 70}

RawTails == UNION {[1..n -> RawAlphabet] : n \in 0..MaxRawLen}

\* strings handed to the decoder: with the prefix, with a damaged prefix, without
RawStrings ==
  {LP \o t : t \in RawTails}
    \cup {SubSeq(LP, 1, 4) \o t : t \in RawTails}
    \cup {t \in RawTails : Len(t) <= 2}

\* "SETM", "SERP": token symbols of the chain
SETM == <<83, 69, 84, 77>>

SERP == <<83, 69, 82, 80>>

Symbols == {SETM, SERP}

\* native identities built from Token and DexShare variants
RECURSIVE Identities(_)
Identities(d) ==
  IF d = 0 THEN {IdToken(sym) : sym \in Symbols}
  ELSE Identities(0)
         \cup {IdDexShare(l, r) : l \in Identities(d - 1), r \in Identities(d - 1)}

\* tokens as the constructor builds them
TokenConfigs ==
  {[type |-> BASIC]}
    \cup {[decimals |-> d] : d \in {0, 12}}
    \cup {[decimal |-> 10, ed |-> 1]}

\* "SETM", "SERP", "x" and "lp://SETM/SERP"
TokenNames == {SETM, SERP, <<120>>, createDexShareName(SETM, SERP).val}

Tokens == {fromCurrencyName(n, c) : n \in TokenNames, c \in TokenConfigs}

\* the Configs handed to the constructor and the factories
ConstructorConfigs ==
  {[decimals |-> d] : d \in {0, 1, 12, 18}}
    \cup {[decimal |-> 10], [decimals |-> 0, decimal |-> 6], [ed |-> 1]}
    \cup {[type |-> t] : t \in {BASIC, DEX_SHARE}}
    \cup {[decimals |-> 12, type |-> ERC20]}

\* what forceToCurrencyName and forceToCurrencyId are handed
Targets ==
  {Str(s) : s \in Names(1)}
    \cup {Arr(<<a, b>>) : a \in BaseNames, b \in BaseNames}
    \cup {Arr(<<>>), Arr(<<SETM>>), Arr(<<SETM, SERP, SETM>>)}
    \cup {Tok(t) : t \in Tokens}
    \cup Identities(MaxIdDepth)
    \cup {IdErc20(<<48, 120, 49>>), IdOther(ObjectStr)}
    \cup {Num(<<52, 50>>), PlainObject, Null, Undefined, BareObject}
    \cup {Str(SubSeq(LP, 1, 5) \o <<120>>), IdDexShare(IdToken(SETM), Null)}

\* the host's global `origin`
Origins == {NoGlobalOrigin, GlobalOrigin(<<110, 117, 108, 108>>)}

Lists(S) == UNION {[1..n -> S] : n \in 0..MaxListLen}

Inputs ==
  {[kind |-> "names", n0 |-> a, n1 |-> b] : a \in Legs, b \in Legs}
    \cup {[kind |-> "string", str |-> s] : s \in RawStrings}
    \cup {[kind |-> "target", target |-> t] : t \in Targets}
    \cup {[kind |-> "tokens", token1 |-> a, token2 |-> b] : a \in Tokens, b \in Tokens}
    \cup {[kind |-> "tokenList", tokens |-> l] : l \in Lists(Tokens)}
    \cup {[kind |-> "currencyList", currencies |-> l] : l \in Lists(Identities(1))}
    \cup {[kind |-> "tokenArgs", n |-> n, configs |-> c] :
             n \in TokenNames, c \in ConstructorConfigs}

(***************************************************************************)
(* The Wallet (unnamed/part_002).  Its two subjects are state: isReady is  *)
(* the value of isReady$, tokens the value of tokens$.  An observable is   *)
(* modelled by what a subscription to it holds: a subscription to          *)
(* subscribeTokens() is a chain (subscribed to isReady$ or not, attached   *)
(* to an inner tokens$ pipe or not, and the number of tokens$              *)
(* subscriptions its shareReplay(1) instances hold open).  An external     *)
(* push (a storage emission, a price tick) runs to completion: one action  *)
(* delivers it to every subscription it reaches.                           *)
(***************************************************************************)
\* api.registry.chainTokens and api.registry.chainDecimals
chainTokens == <<SETM, SERP>>

chainDecimals == <<18, 12>>

\* consts.nativeCurrency: chainTokens[0]
nativeCurrency == chainTokens[1]

\* basicTokens of initTokens, keyed by the chain token; the per-chain config of
\* tokenList.getToken is taken to add nothing
basicTokens ==
  [n \in {chainTokens[i] : i \in 1..Len(chainTokens)} |->
     LET i == CHOOSE j \in 1..Len(chainTokens) : chainTokens[j] = n
     IN  Token(n, [type |-> BASIC, decimals |-> chainDecimals[i]])]

\* createTokenList(basicTokens, tradingPairs) of ./utils/create-token-list: the
\* basic tokens and, under its name, the dex-share token of every trading pair
createTokenList(basic, tradingPairs) ==
  LET shares == {fromTokens(basic[tradingPairs[i][1]], basic[tradingPairs[i][2]]).val :
                   i \in 1..Len(tradingPairs)}
  IN  [n \in DOMAIN basic \cup {t.name : t \in shares} |->
         IF n \in DOMAIN basic THEN basic[n] ELSE CHOOSE t \in shares : t.name = n]

\* new BehaviorSubject<TokenRecord>({})
EmptyRecord == [n \in {} |-> n]

\* the values the tradingPairs storage emits
PairLists == {<<>>, <<<<SETM, SERP>>>>}

\* the name of the dex-share token of the pair
LpName == fromTokens(basicTokens[SETM], basicTokens[SERP]).val.name

\* a name no record holds
Unknown == <<120>>

\* the names callers ask about
QueryNames == {SETM, LpName, Unknown}

\* enum PriceProviderType { 'MARKET', 'ORACLE' }
MARKET == 0

ORACLE == 1

\* an optional argument that was not passed
NotGiven == -1

(***************************************************************************)
(* Storage and price streams (./storages, ./price-provider): created on    *)
(* demand, each keeps its latest value for new subscribers, and a stream   *)
(* that has failed delivers its failure.                                   *)
(***************************************************************************)
Stream(fam, key, ptype) == [fam |-> fam, key |-> key, ptype |-> ptype]

\* storages.nativeBalance(address)
nativeBalance == Stream("nativeBalance", <<>>, NotGiven)

\* storages.nonNativeBalance(token, address)
nonNativeBalance(token) == Stream("nonNativeBalance", token.name, NotGiven)

\* storages.issuance(token)
issuance(token) == Stream("issuance", token.name, NotGiven)

\* priceProvider.subscribe(token.name) of the provider of that type
priceStream(ptype, n) == Stream("price", n, ptype)

\* new Liquidity(api, wallet).subscribePoolDetail(name)
poolDetail(n) == Stream("poolDetail", n, NotGiven)

NoValue == [has |-> FALSE, failed |-> FALSE]

Latest(v) == [has |-> TRUE, failed |-> FALSE, val |-> v]

Failed == [has |-> FALSE, failed |-> TRUE]

\* AccountInfo.data of system.account
AccountInfos ==
  {[free |-> 5, miscFrozen |-> 1, feeFrozen |-> 2, reserved |-> 1],
   [free |-> 1, miscFrozen |-> 3, feeFrozen |-> 0, reserved |-> 0]}

\* OrmlAccountData of tokens.accounts
OrmlAccountDatas ==
  {[free |-> 5, frozen |-> 2, reserved |-> 1],
   [free |-> 1, frozen |-> 3, reserved |-> 0]}

\* Balance of tokens.totalIssuance
Issuances == {[raw |-> 7], [raw |-> 9]}

\* the price a provider of the given type pushes: each has its own
Prices(ptype) == {[price |-> 2 + ptype]}

\* the reserves of the two legs and the issued shares of a pool
PoolDetails == {[amount0 |-> 100, amount1 |-> 50, shares |-> 50]}

ValuesOf(s) ==
  CASE s.fam = "nativeBalance" -> AccountInfos
    [] s.fam = "nonNativeBalance" -> OrmlAccountDatas
    [] s.fam = "issuance" -> Issuances
    [] s.fam = "poolDetail" -> PoolDetails
    [] OTHER -> Prices(s.ptype)

\* FN.fromInner(raw, decimals): the number is kept as its inner integer; the
\* precision is the one of the token it is delivered with
fromInner(raw, decimals) == raw

Max(a, b) == IF a >= b THEN a ELSE b

\* handleNative(data, token) of subscribeBalance
handleNative(data, token) ==
  LET free == fromInner(data.free, token.decimals)
      locked == Max(fromInner(data.miscFrozen, token.decimals),
                    fromInner(data.feeFrozen, token.decimals))
      reserved == fromInner(data.reserved, token.decimals)
      available == Max(free - locked, ZERO)
  IN  [available |-> available, token |-> token, free |-> free,
       locked |-> locked, reserved |-> reserved]

\* a snapshot whose available amount is not cut at zero
handleNonNativeRaw(data, token) ==
  LET free == fromInner(data.free, token.decimals)
      locked == fromInner(data.frozen, token.decimals)
      reserved == fromInner(data.reserved, token.decimals)
  IN  [available |-> free - locked, token |-> token, free |-> free,
       locked |-> locked, reserved |-> reserved]

\* handleNonNative(data, token) of subscribeBalance
handleNonNative(data, token) ==
  LET free == fromInner(data.free, token.decimals)
      locked == fromInner(data.frozen, token.decimals)
      reserved == fromInner(data.reserved, token.decimals)
      available == Max(free - locked, ZERO)
  IN  [available |-> available, token |-> token, free |-> free,
       locked |-> locked, reserved |-> reserved]

\* handleIssuance(data, token) of subscribeIssuance
handleIssuance(data, token) == fromInner(data.raw, token.decimals)

(***************************************************************************)
(* Price provider selection of subscribePrice.  config holds what the      *)
(* constructor was given: source is tokenPriceFetchSource for the chain,   *)
(* providers the types that have a PriceProvider.                          *)
(***************************************************************************)
\* a || b on numbers: 0 and a missing value are falsy
OrElse(a, b) == IF a = NotGiven \/ a = 0 THEN b ELSE a

\* type || tokenPriceFetchSource?.[chain]?.[name] || PriceProviderType.MARKET
ResolvedType(type, n) ==
  OrElse(type, OrElse(IF n \in DOMAIN config.source THEN config.source[n] ELSE NotGiven,
                      MARKET))

\* a lookup that takes every resolved type to have a provider
AnyProvider(type, n) == ResolvedType(type, n) \in {MARKET, ORACLE}

\* the type whose provider subscribePrice picked, if it picked one
HasProvider(type, n) ==
  /\ ResolvedType(type, n) \in {MARKET, ORACLE}
  /\ ResolvedType(type, n) \in config.providers

(***************************************************************************)
(* Observers.  An observer is one subscription to a view: the operation,   *)
(* its arguments, whether it is the one-shot form (firstValueFrom), its    *)
(* chains, the Token each chain found last, the streams it is subscribed   *)
(* to, and out, what the last push delivered to it.                        *)
(***************************************************************************)
NoError == [error |-> "", about |-> <<>>]

Idle ==
  [st |-> "idle", op |-> "none", key |-> <<>>, arg |-> NotGiven, once |-> FALSE,
   err |-> NoError, legs |-> <<>>, chains |-> <<>>, toks |-> <<>>, subs |-> {},
   out |-> <<>>]

\* a subscription to subscribeTokens(): subscribed to isReady$, no inner yet
NewChain == [ready |-> TRUE, inner |-> FALSE, conns |-> 0]

TokensValue(rec) == [kind |-> "tokens", rec |-> rec]

TokenValue(t) == [kind |-> "token", token |-> t]

BalanceValue(d) == [kind |-> "balance", data |-> d]

AmountValue(n) == [kind |-> "amount", amount |-> n]

\* unsubscribing: the subscriptions to isReady$, to the inner pipes and to the
\* streams are closed; shareReplay(1) keeps its own subscription to tokens$
Teardown(o) ==
  [o EXCEPT !.chains = [i \in DOMAIN o.chains |->
                          [o.chains[i] EXCEPT !.ready = FALSE, !.inner = FALSE]],
            !.toks = [i \in DOMAIN o.toks |-> <<>>],
            !.subs = {},
            !.once = FALSE]

\* an error notification reaches the observer
Fail(o, e, about) ==
  [Teardown(o) EXCEPT !.st = "error", !.err = [error |-> e, about |-> about]]

\* a next notification reaches the observer; firstValueFrom resolves and
\* unsubscribes on the first one
Emit(o, v) ==
  LET d == [o EXCEPT !.out = Append(o.out, v)]
  IN  IF o.once THEN [Teardown(d) EXCEPT !.st = "closed"] ELSE d

\* the map of subscribeTokens(type)
FilterType(data, type) ==
  IF type = NotGiven \/ type = 0 THEN data
  ELSE [n \in {k \in DOMAIN data : data[k].type = type} |-> data[n]]

\* a find that takes the first token whatever its name
FoundAny(all, n) == DOMAIN all

\* Object.values(all).find((item) => item.name === name)
Found(all, n) == {k \in DOMAIN all : all[k].name = n}

StateIn(str, s) == IF s \in DOMAIN str THEN str[s] ELSE NoValue

StateOf(s) == StateIn(streams, s)

\* what the observer is handed for a value v of stream s
Data(o, s, v) ==
  CASE o.op = "balance" /\ s.fam = "nativeBalance" -> BalanceValue(handleNative(v, o.toks[1][1]))
    [] o.op = "balance" /\ s.fam = "nonNativeBalance" -> BalanceValue(handleNonNative(v, o.toks[1][1]))
    [] OTHER -> AmountValue(handleIssuance(v, o.toks[1][1]))

\* switchMap((token) => stream): the stream before is left, the new one
\* delivers its latest value or its failure
Attach(o, s) ==
  LET d == [o EXCEPT !.subs = {s}]
  IN  IF StateOf(s).failed THEN Fail(d, "StreamFailed", s.key)
      ELSE IF StateOf(s).has THEN Emit(d, Data(d, s, StateOf(s).val))
      ELSE d

(***************************************************************************)
(* subscribePrice(name, type) when a provider was picked.  For a basic     *)
(* name the one leg is the name itself, with the provider picked; for a    *)
(* dex-share name the legs are subscribePrice(token0) and                  *)
(* subscribePrice(token1), each with the provider picked for the leg, and  *)
(* subscribeDexShareTokenPrice (./utils/get-dex-share-token-price)         *)
(* combines their latest prices with the latest pool detail.  The legs of  *)
(* the dex-share names asked about are basic names.                        *)
(***************************************************************************)
\* const [token0, token1] = unzipDexShareName(name)
LegNames(n) == IF isDexShareName(n) THEN unzipDexShareName(n).val ELSE <<n>>

LegType(o, i) ==
  IF isDexShareName(o.key) THEN ResolvedType(NotGiven, o.legs[i])
  ELSE ResolvedType(o.arg, o.key)

\* a leg without a provider is of(FN.ZERO)
LegHasProvider(o, i) ==
  IF isDexShareName(o.key) THEN HasProvider(NotGiven, o.legs[i]) ELSE TRUE

LegStream(o, i) == priceStream(LegType(o, i), o.legs[i])

\* the latest price of leg i, if it has delivered one
LegVal(o, i, str) ==
  IF ~LegHasProvider(o, i) THEN <<ZERO>>
  ELSE IF o.toks[i] # <<>> /\ LegStream(o, i) \in o.subs /\ StateIn(str, LegStream(o, i)).has
       THEN <<StateIn(str, LegStream(o, i)).val.price>>
       ELSE <<>>

PoolVal(o, str) ==
  IF poolDetail(o.key) \in o.subs /\ StateIn(str, poolDetail(o.key)).has
  THEN <<StateIn(str, poolDetail(o.key)).val>>
  ELSE <<>>

\* the price the view has for its observer: the leg's for a basic name, and
\* (price0 * amount0 + price1 * amount1) / shares for a dex-share name once
\* the three inputs have a value
PriceOut(o, str) ==
  IF ~isDexShareName(o.key) THEN LegVal(o, 1, str)
  ELSE IF LegVal(o, 1, str) # <<>> /\ LegVal(o, 2, str) # <<>> /\ PoolVal(o, str) # <<>>
       THEN <<(LegVal(o, 1, str)[1] * PoolVal(o, str)[1].amount0
                 + LegVal(o, 2, str)[1] * PoolVal(o, str)[1].amount1)
                \div PoolVal(o, str)[1].shares>>
       ELSE <<>>

\* one of the inputs has delivered
PriceEmit(o, str) ==
  IF PriceOut(o, str) = <<>> THEN o ELSE Emit(o, AmountValue(PriceOut(o, str)[1]))

\* switchMap((token) => priceProvider.subscribe(token.name)) of leg i
AttachLeg(o, i) ==
  LET d == [o EXCEPT !.subs = o.subs \cup {LegStream(o, i)}]
  IN  IF StateOf(LegStream(o, i)).failed THEN Fail(d, "StreamFailed", LegStream(o, i).key)
      ELSE IF StateOf(LegStream(o, i)).has THEN PriceEmit(d, streams)
      ELSE d

\* the name chain i of the observer looks up
ChainKey(o, i) == IF o.op = "price" THEN o.legs[i] ELSE o.key

\* the record rec arrives from chain i of the observer
OnRecord(o, i, rec) ==
  IF o.op = "tokens" THEN Emit(o, TokensValue(FilterType(rec, o.arg)))
  ELSE IF Found(rec, ChainKey(o, i)) = {} THEN Fail(o, "CurrencyNotFound", ChainKey(o, i))
  ELSE LET token == rec[CHOOSE k \in Found(rec, ChainKey(o, i)) : TRUE]
           d == [o EXCEPT !.toks[i] = <<token>>]
       IN  CASE o.op = "token" -> Emit(o, TokenValue(token))
             [] o.op = "balance" ->
                  Attach(d, IF nativeCurrency = token.name THEN nativeBalance
                            ELSE nonNativeBalance(token))
             [] o.op = "issuance" -> Attach(d, issuance(token))
             [] OTHER -> AttachLeg(d, i)

\* switchMap(() => tokens$.pipe(map, shareReplay(1))): a new pipe is made and
\* subscribed, its shareReplay subscribes to tokens$
Switch(c) == [c EXCEPT !.inner = TRUE, !.conns = c.conns + 1]

\* tokens$.next(rec), from chain i on
RECURSIVE TokensNext(_, _, _)
TokensNext(o, i, rec) ==
  IF i > Len(o.chains) THEN o
  ELSE TokensNext(IF o.st = "active" /\ o.chains[i].inner THEN OnRecord(o, i, rec) ELSE o,
                  i + 1, rec)

\* isReady$.next(true) with rec the value of tokens$, from chain i on: filter
\* lets it pass and switchMap switches to a new inner pipe, which delivers rec
RECURSIVE ReadyNext(_, _, _)
ReadyNext(o, i, rec) ==
  IF i > Len(o.chains) THEN o
  ELSE ReadyNext(IF o.st = "active" /\ o.chains[i].ready
                 THEN OnRecord([o EXCEPT !.chains[i] = Switch(o.chains[i])], i, rec)
                 ELSE o,
                 i + 1, rec)

\* the value v of stream s is pushed
StreamNext(o, s, v) ==
  IF o.st = "active" /\ s \in o.subs
  THEN IF o.op = "price" THEN PriceEmit(o, [streams EXCEPT ![s] = Latest(v)])
       ELSE Emit(o, Data(o, s, v))
  ELSE o

\* stream s fails
StreamError(o, s) ==
  IF o.st = "active" /\ s \in o.subs THEN Fail(o, "StreamFailed", s.key) ELSE o

\* out is what the last push delivered
Fresh(o) == [o EXCEPT !.out = <<>>]

(***************************************************************************)
(* The state after new Wallet(api, tokenPriceFetchSource, priceProviders): *)
(* isReady$ holds false, tokens$ the empty record, combineLatest has seen  *)
(* neither stream, nobody has subscribed.                                  *)
(***************************************************************************)
Observers == {"a", "b"}

\* the metadata storages stop emitting once a chain holds this many tokens$
\* subscriptions
MaxConns == 2

\* tokenPriceFetchSource for the chain: no entry, or an entry for a name
NoSource == [n \in {} |-> MARKET]

Sources == {NoSource, [n \in {SETM} |-> ORACLE], [n \in {SETM} |-> MARKET]}

\* { ...defaultPriceProviders, ...priceProviders }: both by default
DefaultConfig == [source |-> NoSource, providers |-> {MARKET, ORACLE}]

Configs == {[source |-> s, providers |-> p] : s \in Sources, p \in SUBSET {MARKET, ORACLE}}

NoStreams == [s \in {} |-> NoValue]

WalletStart ==
  /\ isReady = FALSE
  /\ tokenRecord = EmptyRecord
  /\ meta = [tp |-> <<>>, am |-> FALSE, alive |-> TRUE]
  /\ streams = NoStreams
  /\ obs = [o \in Observers |-> Idle]

(***************************************************************************)
(* The state machine: an input is drawn, then calls are made on it and on  *)
(* the name an earlier call produced.                                      *)
(***************************************************************************)
NoResult == [tag |-> "none"]

Init ==
  /\ input \in Inputs
  /\ pc = "start"
  /\ name = <<>>
  /\ ret = NoResult
  /\ WalletStart
  /\ config = DefaultConfig
  /\ calls = <<>>

Called(op) == pc = op

CreateDexShareName ==
  /\ pc = "start"
  /\ input.kind = "names"
  /\ ret' = createDexShareName(input.n0, input.n1)
  /\ name' = IF IsReturn(ret') THEN ret'.val ELSE name
  /\ pc' = "createDexShareName"
  /\ UNCHANGED input
  /\ UNCHANGED <<wvars, calls>>

\* on a string handed in, or on the name createDexShareName just returned
UnzipDexShareName ==
  /\ \/ pc = "start" /\ input.kind = "string" /\ name' = input.str
     \/ pc = "createDexShareName" /\ IsReturn(ret) /\ name' = name
  /\ ret' = unzipDexShareName(name')
  /\ pc' = "unzipDexShareName"
  /\ UNCHANGED input
  /\ UNCHANGED <<wvars, calls>>

\* on a string handed in, or on the name an earlier call returned
GetCurrencyObject ==
  /\ \/ pc = "start" /\ input.kind = "string" /\ name' = input.str
     \/ pc = "createDexShareName" /\ IsReturn(ret) /\ name' = name
     \/ pc = "forceToCurrencyName" /\ IsReturn(ret) /\ name' = name
  /\ ret' = getCurrencyObject(name')
  /\ pc' = "getCurrencyObject"
  /\ UNCHANGED input
  /\ UNCHANGED <<wvars, calls>>

ForceToCurrencyName ==
  /\ pc = "start"
  /\ input.kind = "target"
  /\ ret' = forceToCurrencyName(input.target)
  /\ name' = IF IsReturn(ret') THEN ret'.val ELSE name
  /\ pc' = "forceToCurrencyName"
  /\ UNCHANGED input
  /\ UNCHANGED <<wvars, calls>>

ForceToCurrencyId ==
  /\ pc = "start"
  /\ input.kind = "target"
  /\ \E createTypeOk \in BOOLEAN, origin \in Origins :
       ret' = forceToCurrencyId(createTypeOk, origin, input.target)
  /\ pc' = "forceToCurrencyId"
  /\ UNCHANGED <<input, name>>
  /\ UNCHANGED <<wvars, calls>>

FromTokens ==
  /\ pc = "start"
  /\ input.kind = "tokens"
  /\ ret' = fromTokens(input.token1, input.token2)
  /\ pc' = "fromTokens"
  /\ UNCHANGED <<input, name>>
  /\ UNCHANGED <<wvars, calls>>

NamesOf(tokens) == [i \in 1..Len(tokens) |-> tokens[i].name]

SortTokenNames ==
  /\ pc = "start"
  /\ input.kind = "tokenList"
  /\ ret' = Return(sortTokenNames(NamesOf(input.tokens)))
  /\ pc' = "sortTokenNames"
  /\ UNCHANGED <<input, name>>
  /\ UNCHANGED <<wvars, calls>>

Sort ==
  /\ pc = "start"
  /\ input.kind = "tokenList"
  /\ ret' = Return(sort(input.tokens))
  /\ pc' = "sort"
  /\ UNCHANGED <<input, name>>
  /\ UNCHANGED <<wvars, calls>>

SortCurrencies ==
  /\ pc = "start"
  /\ input.kind = "currencyList"
  /\ ret' = sortCurrencies(input.currencies)
  /\ pc' = "sortCurrencies"
  /\ UNCHANGED <<input, name>>
  /\ UNCHANGED <<wvars, calls>>

\* new Token(name, configs)
NewToken ==
  /\ pc = "start"
  /\ input.kind = "tokenArgs"
  /\ ret' = Return(Token(input.n, input.configs))
  /\ pc' = "Token"
  /\ UNCHANGED <<input, name>>
  /\ UNCHANGED <<wvars, calls>>

Create ==
  /\ pc = "start"
  /\ input.kind = "tokenArgs"
  /\ ret' = Return(create(input.n, input.configs))
  /\ pc' = "create"
  /\ UNCHANGED <<input, name>>
  /\ UNCHANGED <<wvars, calls>>

FromCurrencyName ==
  /\ pc = "start"
  /\ input.kind = "tokenArgs"
  /\ ret' = Return(fromCurrencyName(input.n, input.configs))
  /\ pc' = "fromCurrencyName"
  /\ UNCHANGED <<input, name>>
  /\ UNCHANGED <<wvars, calls>>

Next ==
  \/ CreateDexShareName
  \/ UnzipDexShareName
  \/ GetCurrencyObject
  \/ ForceToCurrencyName
  \/ ForceToCurrencyId
  \/ FromTokens
  \/ SortTokenNames
  \/ Sort
  \/ SortCurrencies
  \/ NewToken
  \/ Create
  \/ FromCurrencyName

Spec == Init /\ [][Next]_vars

(***************************************************************************)
(* The Wallet's state machine.                                             *)
(***************************************************************************)
CodecIdle ==
  /\ input = [kind |-> "none"]
  /\ pc = "wallet"
  /\ name = <<>>
  /\ ret = NoResult
  /\ calls = <<>>

WalletInit == CodecIdle /\ WalletStart /\ config = DefaultConfig

PriceInit == CodecIdle /\ WalletStart /\ config \in Configs

\* the streams the observers have asked the storages and providers for
Created(os) ==
  LET wanted == UNION {os[o].subs : o \in Observers}
  IN  [s \in DOMAIN streams \cup wanted |-> StateOf(s)]

\* a next handler that adds the new list to the record it finds
CombinedMerged(m) ==
  IF m.am /\ m.tp # <<>>
  THEN LET list == createTokenList(basicTokens, m.tp[1]) @@ tokenRecord
       IN  /\ tokenRecord' = list
           /\ isReady' = TRUE
           /\ obs' = [o \in Observers |->
                        ReadyNext(TokensNext(Fresh(obs[o]), 1, list), 1, list)]
  ELSE /\ obs' = [o \in Observers |-> Fresh(obs[o])]
       /\ UNCHANGED <<tokenRecord, isReady>>

\* a next handler whose views are shared down to the lookup: a lookup that
\* throws for one observer ends every observer that is handed the record
CombinedShared(m) ==
  IF m.am /\ m.tp # <<>>
  THEN LET list == createTokenList(basicTokens, m.tp[1])
           nxt == [o \in Observers |->
                     ReadyNext(TokensNext(Fresh(obs[o]), 1, list), 1, list)]
           broke == \E o \in Observers : obs[o].st = "active" /\ nxt[o].st = "error"
       IN  /\ tokenRecord' = list
           /\ isReady' = TRUE
           /\ obs' = [o \in Observers |->
                        IF broke /\ obs[o].st = "active"
                        THEN Fail(Fresh(obs[o]), "CurrencyNotFound", obs[o].key)
                        ELSE nxt[o]]
  ELSE /\ obs' = [o \in Observers |-> Fresh(obs[o])]
       /\ UNCHANGED <<tokenRecord, isReady>>

\* the next handler of initTokens, once combineLatest has a value of both
\* streams: the record is rebuilt, tokens$.next(list), isReady$.next(true)
Combined(m) ==
  IF m.am /\ m.tp # <<>>
  THEN LET list == createTokenList(basicTokens, m.tp[1])
       IN  /\ tokenRecord' = list
           /\ isReady' = TRUE
           /\ obs' = [o \in Observers |->
                        ReadyNext(TokensNext(Fresh(obs[o]), 1, list), 1, list)]
  ELSE /\ obs' = [o \in Observers |-> Fresh(obs[o])]
       /\ UNCHANGED <<tokenRecord, isReady>>

Bounded ==
  \A o \in Observers : \A i \in 1..Len(obs[o].chains) : obs[o].chains[i].conns < MaxConns

\* the tradingPairs storage emits
TradingPairsNext ==
  /\ meta.alive
  /\ Bounded
  /\ \E pairs \in PairLists :
       /\ meta' = [meta EXCEPT !.tp = <<pairs>>]
       /\ Combined(meta')
  /\ streams' = Created(obs')
  /\ UNCHANGED <<config, input, pc, name, calls>>
  /\ ret' = NoResult

\* the assetMetadatas storage emits
AssetMetadatasNext ==
  /\ meta.alive
  /\ Bounded
  /\ meta' = [meta EXCEPT !.am = TRUE]
  /\ Combined(meta')
  /\ streams' = Created(obs')
  /\ UNCHANGED <<config, input, pc, name, calls>>
  /\ ret' = NoResult

\* the tradingPairs or the assetMetadatas storage fails: combineLatest fails
\* and leaves the other stream; the subscriber of initTokens has no error
\* handler, so the failure goes nowhere
MetadataError ==
  /\ meta.alive
  /\ meta' = [meta EXCEPT !.alive = FALSE]
  /\ obs' = [o \in Observers |-> Fresh(obs[o])]
  /\ UNCHANGED <<isReady, tokenRecord, streams, config, input, pc, name, calls>>
  /\ ret' = NoResult

\* a subscription that is handed nothing until the next push
SubscribedLate(view, once) ==
  [Idle EXCEPT !.st = "active", !.op = view.op, !.key = view.key, !.arg = view.arg,
               !.once = once, !.chains = <<NewChain>>, !.toks = <<<<>>>>]

\* what subscribing hands the new observer at once: isReady$ is a
\* BehaviorSubject and replays its value
Subscribed(view, once) ==
  LET new == [Idle EXCEPT !.st = "active", !.op = view.op, !.key = view.key,
                          !.arg = view.arg, !.once = once,
                          !.chains = <<NewChain>>, !.toks = <<<<>>>>]
  IN  IF isReady THEN ReadyNext(new, 1, tokenRecord) ELSE new

\* subscribeTokens(type), subscribeToken(name), subscribeBalance(name, address),
\* subscribeIssuance(name), or the get form of each
Views ==
  {[op |-> "tokens", key |-> <<>>, arg |-> t] : t \in {NotGiven, BASIC, DEX_SHARE}}
    \cup {[op |-> p, key |-> forceToCurrencyName(Str(k)).val, arg |-> NotGiven] :
            p \in {"token", "balance", "issuance"}, k \in QueryNames}

Subscribe(o) ==
  /\ obs[o].st = "idle"
  /\ \E view \in Views, once \in BOOLEAN :
       /\ obs' = [p \in Observers |->
                    IF p = o THEN Subscribed(view, once) ELSE Fresh(obs[p])]
  /\ streams' = Created(obs')
  /\ UNCHANGED <<isReady, tokenRecord, meta, config, input, pc, name, calls>>
  /\ ret' = NoResult

\* subscription.unsubscribe()
Unsubscribe(o) ==
  /\ obs[o].st = "active"
  /\ obs' = [p \in Observers |->
               IF p = o THEN [Teardown(Fresh(obs[o])) EXCEPT !.st = "closed"]
               ELSE Fresh(obs[p])]
  /\ UNCHANGED <<isReady, tokenRecord, meta, streams, config, input, pc, name, calls>>
  /\ ret' = NoResult

\* a storage or a price provider pushes a value on a stream
StreamPush ==
  /\ \E s \in DOMAIN streams :
       /\ ~streams[s].failed
       /\ \E v \in ValuesOf(s) :
            /\ streams' = [streams EXCEPT ![s] = Latest(v)]
            /\ obs' = [o \in Observers |-> StreamNext(Fresh(obs[o]), s, v)]
  /\ UNCHANGED <<isReady, tokenRecord, meta, config, input, pc, name, calls>>
  /\ ret' = NoResult

\* a storage or a price provider stream fails
StreamFault ==
  /\ \E s \in DOMAIN streams :
       /\ ~streams[s].failed
       /\ streams' = [streams EXCEPT ![s] = Failed]
       /\ obs' = [o \in Observers |-> StreamError(Fresh(obs[o]), s)]
  /\ UNCHANGED <<isReady, tokenRecord, meta, config, input, pc, name, calls>>
  /\ ret' = NoResult

\* api.consts.serpTreasury
serpTreasury == [getSerpCurrencyId |-> Str(SERP)]

\* tokens[name]
Stored(rec, n) == IF n \in DOMAIN rec THEN <<rec[n]>> ELSE <<>>

\* getPresetTokens()
getPresetTokens ==
  IF isReady = FALSE THEN Throw("SDKNotReady", <<119, 97, 108, 108, 101, 116>>)
  ELSE Return([nativeToken |-> Stored(tokenRecord, forceToCurrencyName(Str(nativeCurrency)).val),
               stableToken |->
                 Stored(tokenRecord, forceToCurrencyName(serpTreasury.getSerpCurrencyId).val)])

GetPresetTokens ==
  /\ ret' = getPresetTokens
  /\ obs' = [o \in Observers |-> Fresh(obs[o])]
  /\ UNCHANGED <<isReady, tokenRecord, meta, streams, config, input, pc, name, calls>>

\* subscribePrice(name, type) or getPrice(name, type)
PriceViews ==
  {[op |-> "price", key |-> forceToCurrencyName(Str(k)).val, arg |-> t] :
     k \in QueryNames, t \in {NotGiven, MARKET, ORACLE}}

\* a chain for every leg that has a provider
LegChains(o) ==
  [i \in 1..Len(o.legs) |->
     IF LegHasProvider(o, i) THEN NewChain ELSE [NewChain EXCEPT !.ready = FALSE]]

\* combineLatest subscribes to the pool detail after the legs
AttachPool(o) ==
  IF o.st # "active" \/ ~isDexShareName(o.key) THEN o
  ELSE LET d == [o EXCEPT !.subs = o.subs \cup {poolDetail(o.key)}]
       IN  IF StateOf(poolDetail(o.key)).failed THEN Fail(d, "StreamFailed", o.key)
           ELSE IF StateOf(poolDetail(o.key)).has THEN PriceEmit(d, streams)
           ELSE d

\* without a provider the view is of(FN.ZERO): it delivers zero and completes
SubscribedPrice(view, once) ==
  LET new == [Idle EXCEPT !.st = "active", !.op = view.op, !.key = view.key,
                          !.arg = view.arg, !.once = once]
      named == [new EXCEPT !.legs = LegNames(view.key)]
      legs == [named EXCEPT !.chains = LegChains(named),
                            !.toks = [i \in 1..Len(named.legs) |-> <<>>]]
  IN  IF ~HasProvider(view.arg, view.key)
      THEN LET d == Emit(new, AmountValue(ZERO))
           IN  IF d.st = "active" THEN [d EXCEPT !.st = "complete"] ELSE d
      ELSE AttachPool(IF isReady THEN ReadyNext(legs, 1, tokenRecord) ELSE legs)

SubscribePrice(o) ==
  /\ obs[o].st = "idle"
  /\ \E view \in PriceViews, once \in BOOLEAN :
       obs' = [p \in Observers |->
                 IF p = o THEN SubscribedPrice(view, once) ELSE Fresh(obs[p])]
  /\ streams' = Created(obs')
  /\ UNCHANGED <<isReady, tokenRecord, meta, config, input, pc, name, calls>>
  /\ ret' = NoResult

WalletNext ==
  \/ TradingPairsNext
  \/ AssetMetadatasNext
  \/ MetadataError
  \/ \E o \in Observers : Subscribe(o)
  \/ \E o \in Observers : Unsubscribe(o)
  \/ StreamPush
  \/ StreamFault
  \/ GetPresetTokens

WalletSpec == WalletInit /\ [][WalletNext]_vars

\* price queries are followed one caller at a time
PriceNext ==
  \/ TradingPairsNext
  \/ AssetMetadatasNext
  \/ MetadataError
  \/ SubscribePrice("a")
  \/ Unsubscribe("a")
  \/ StreamPush
  \/ StreamFault
  \/ GetPresetTokens

PriceSpec == PriceInit /\ [][PriceNext]_vars

(***************************************************************************)
(* getCurrencyObject followed call by call.  calls is the stack of the     *)
(* calls of inner (converter.ts:63-72) that have not returned: the name a  *)
(* call was made on, the two legs once unzipDexShareName has returned      *)
(* them, and the objects its recursive calls have returned so far.  An     *)
(* exception unwinds the whole stack.                                      *)
(***************************************************************************)
\* the names getCurrencyObject is called on
ObjectNames == Names(MaxDepth) \cup RawStrings

\* inner(n) has been called and has not run yet
Frame(n) == [n |-> n, legs |-> <<>>, vals |-> <<>>]

Top == calls[Len(calls)]

\* a call that goes on with the name it was made on
CalleeSame(f) == f.n

\* the name the next recursive call of f is made on: inner(name1), inner(name2)
Callee(f) == f.legs[Len(f.vals) + 1]

\* the call on top returns object: to its caller, or out of getCurrencyObject
ReturnObject(object) ==
  LET rest == SubSeq(calls, 1, Len(calls) - 1)
  IN  IF rest = <<>>
      THEN /\ calls' = <<>>
           /\ ret' = Return(object)
           /\ pc' = "getCurrencyObject"
      ELSE /\ calls' = [rest EXCEPT ![Len(rest)].vals = Append(@, object)]
           /\ UNCHANGED <<ret, pc>>

ObjectInit ==
  /\ input = [kind |-> "none"]
  /\ pc = "start"
  /\ name = <<>>
  /\ ret = NoResult
  /\ WalletStart
  /\ config = DefaultConfig
  /\ calls = <<>>

\* getCurrencyObject(name)
GetCurrencyObjectCall ==
  /\ pc = "start"
  /\ \E n \in ObjectNames :
       /\ input' = [kind |-> "name", n |-> n]
       /\ name' = n
       /\ IF isDexShareName(n)
          THEN /\ calls' = <<Frame(n)>>
               /\ pc' = "inner"
               /\ UNCHANGED ret
          ELSE /\ calls' = <<>>
               /\ pc' = "getCurrencyObject"
               /\ ret' = Return(getBasicCurrencyObject(n))
  /\ UNCHANGED wvars

\* the call on top runs: a basic name returns its object, a dex-share name is
\* unzipped, and an exception of unzipDexShareName leaves every call
InnerCall ==
  /\ pc = "inner"
  /\ Top.legs = <<>>
  /\ IF isDexShareName(Top.n)
     THEN LET u == unzipDexShareName(Top.n)
          IN  IF IsThrow(u)
              THEN /\ calls' = <<>>
                   /\ ret' = u
                   /\ pc' = "getCurrencyObject"
              ELSE /\ calls' = [calls EXCEPT ![Len(calls)].legs = u.val]
                   /\ UNCHANGED <<ret, pc>>
     ELSE ReturnObject(getBasicCurrencyObject(Top.n))
  /\ UNCHANGED <<input, name, wvars>>

\* inner(name1), then inner(name2)
InnerLeg ==
  /\ pc = "inner"
  /\ Top.legs # <<>>
  /\ Len(Top.vals) < 2
  /\ calls' = Append(calls, Frame(Callee(Top)))
  /\ UNCHANGED <<input, pc, name, ret, wvars>>

\* return { DexShare: [inner(name1), inner(name2)] }
InnerReturn ==
  /\ pc = "inner"
  /\ Top.legs # <<>>
  /\ Len(Top.vals) = 2
  /\ ReturnObject([DexShare |-> Top.vals])
  /\ UNCHANGED <<input, name, wvars>>

ObjectNext == GetCurrencyObjectCall \/ InnerCall \/ InnerLeg \/ InnerReturn

ObjectSpec == ObjectInit /\ [][ObjectNext]_vars

(***************************************************************************)
(* Properties.                                                             *)
(***************************************************************************)
\* the text after the prefix
AfterPrefix(s) == Drop(s, Len(LP))

\* s is lp://A/B with no '/' inside A or B
HasShape(s) == StartsWith(s, LP) /\ Cardinality(Slashes(AfterPrefix(s))) = 1

\* A and B of a string that has the shape
SegmentA(s) == SubSeq(AfterPrefix(s), 1, (CHOOSE i \in Slashes(AfterPrefix(s)) : TRUE) - 1)

SegmentB(s) == Drop(AfterPrefix(s), CHOOSE i \in Slashes(AfterPrefix(s)) : TRUE)

\* C1: decoding the name composed from any two names n0, n1 (the empty name,
\* names with '/', '%' or ':', names that are dex-share names themselves) gives
\* back exactly [n0, n1].
C1_RoundTrip ==
  (input.kind = "names" /\ Called("unzipDexShareName"))
    => ret = Return(<<input.n0, input.n1>>)

\* C2: every string that is not of the single top-level shape lp://A/B (no
\* prefix, no '/' after the prefix, or a further '/' after the separator) makes
\* unzipDexShareName fail with NotDexShareName for that string.
C2_NotDexShareName ==
  (Called("unzipDexShareName") /\ ~HasShape(name))
    => ret = Throw("NotDexShareName", name)

\* C2 witness: a string with the prefix and a second '/' after the separator was
\* decoded and rejected.
C2_Witness ==
  /\ Called("unzipDexShareName")
  /\ input.kind = "string"
  /\ StartsWith(name, LP)
  /\ Cardinality(Slashes(AfterPrefix(name))) >= 2
  /\ Threw(ret, "NotDexShareName")

\* C3: every string lp://A/B with no '/' in A or B is decoded: the call returns,
\* never throws, and what it returns is the pair of the percent-decoded A and B,
\* also when A or B is empty or holds a malformed percent escape.
C3_DecodesEveryShape ==
  (Called("unzipDexShareName") /\ HasShape(name))
    => /\ IsReturn(ret)
       /\ (~DecodeThrows(SegmentA(name)) /\ ~DecodeThrows(SegmentB(name)))
            => ret.val = <<DecodeStr(SegmentA(name)), DecodeStr(SegmentB(name))>>

\* { DexShare: [o1, o2] } of two structuring outcomes, the first failure winning
DexShareOf(o1, o2) ==
  IF IsThrow(o1) THEN o1
  ELSE IF IsThrow(o2) THEN o2
  ELSE Return([DexShare |-> <<o1.val, o2.val>>])

\* C4: getCurrencyObject mirrors the nesting of the name: a basic name n gives
\* {Token: n}, and the name composed from a and b gives
\* {DexShare: [getCurrencyObject(a), getCurrencyObject(b)]}, legs in that order.
C4_MirrorsNesting ==
  Called("getCurrencyObject")
    => /\ ~isDexShareName(name) => ret = Return([Token |-> name])
       /\ input.kind = "names"
            => ret = DexShareOf(getCurrencyObject(input.n0), getCurrencyObject(input.n1))

\* a native identity built only from Token and DexShare variants
RECURSIVE IsTokenTree(_)
IsTokenTree(t) ==
  /\ t.kind = "CurrencyId"
  /\ \/ t.type = "Token"
     \/ t.type = "DexShare" /\ IsTokenTree(t.legs[1]) /\ IsTokenTree(t.legs[2])

\* the structure with the tree shape, leg order and leaf names of an identity
RECURSIVE ShapeOf(_)
ShapeOf(t) ==
  IF t.type = "Token" THEN [Token |-> t.sym]
  ELSE [DexShare |-> <<ShapeOf(t.legs[1]), ShapeOf(t.legs[2])>>]

\* C5: for a native identity built only from Token and DexShare variants,
\* structuring the name forceToCurrencyName gives for it yields the identity's
\* own tree: same shape, same leg order, same leaf names.
C5_NameOfIdentityRoundTrip ==
  (Called("getCurrencyObject") /\ input.kind = "target" /\ IsTokenTree(input.target))
    => ret = Return(ShapeOf(input.target))

\* C5 witness: an identity nested two deep, with two different legs, was named
\* and the name was structured.
C5_Witness ==
  /\ Called("getCurrencyObject")
  /\ input.kind = "target"
  /\ IsTokenTree(input.target)
  /\ input.target.type = "DexShare"
  /\ input.target.legs[1].type = "DexShare"
  /\ input.target.legs[1] # input.target.legs[2]
  /\ IsReturn(ret)

\* the shapes forceToCurrencyName recognizes: a string, a [name0, name1] pair, a
\* Token, a native tagged identity
Recognized(t) ==
  \/ t.kind \in {"string", "Token", "CurrencyId"}
  \/ t.kind = "array" /\ Len(t.items) = 2

\* C6: handed a target of no recognized shape, forceToCurrencyName fails with
\* ConvertToCurrencyNameFailed carrying that target: it returns no name and it
\* fails with no other error.
C6_UnrecognizedFails ==
  (Called("forceToCurrencyName") /\ ~Recognized(input.target))
    => ret = Throw("ConvertToCurrencyNameFailed", input.target)

\* C7: when forceToCurrencyId fails (naming, structuring or api.createType
\* failed), it fails with ConvertToCurrencyIdFailed and the error carries exactly
\* the target that was passed in.
C7_IdFailureCarriesTarget ==
  (Called("forceToCurrencyId") /\ IsThrow(ret))
    => ret = Throw("ConvertToCurrencyIdFailed", input.target)

\* the one of a, b whose name is lower in the canonical ordering, and the other
Lower(a, b) == IF sortTokenByName(a.name, b.name) < 0 THEN a ELSE b

Higher(a, b) == IF sortTokenByName(a.name, b.name) < 0 THEN b ELSE a

\* C8: Token.fromTokens(a, b) returns a token of type DEX_SHARE named
\* createDexShareName(lo.name, hi.name) with the decimals and the existential
\* deposit of lo, lo being the one of a, b whose name is lower in the canonical
\* ordering and hi the other.
C8_FromTokensTakesLower ==
  (Called("fromTokens") /\ input.token1.name # input.token2.name)
    => LET lo == Lower(input.token1, input.token2)
           hi == Higher(input.token1, input.token2)
       IN  /\ IsReturn(ret)
           /\ ret.val.type = DEX_SHARE
           /\ ret.val.name = createDexShareName(lo.name, hi.name).val
           /\ ret.val.decimals = lo.decimals
           /\ ret.val.ed = lo.ed

\* C8 witness: two tokens were composed of which the second has the lower name,
\* and they differ in decimals and in existential deposit.
C8_Witness ==
  /\ Called("fromTokens")
  /\ sortTokenByName(input.token1.name, input.token2.name) > 0
  /\ input.token1.decimals # input.token2.decimals
  /\ input.token1.ed # input.token2.ed
  /\ IsReturn(ret)
  /\ ret.val.decimals = input.token2.decimals

\* C9: composition does not depend on the order of the arguments: for any two
\* tokens a and b, fromTokens(a, b) and fromTokens(b, a) both return a token, and
\* the two have the same name, decimals and existential deposit.
C9_FromTokensSymmetric ==
  Called("fromTokens")
    => LET other == fromTokens(input.token2, input.token1)
       IN  /\ IsReturn(ret)
           /\ IsReturn(other)
           /\ ret.val.name = other.val.name
           /\ ret.val.decimals = other.val.decimals
           /\ ret.val.ed = other.val.ed

\* the names of a list of identities
CurrencyNames(cs) == [i \in 1..Len(cs) |-> forceToCurrencyName(cs[i]).val]

\* C10: the three sorts agree: for any list of tokens or identities, also one in
\* which two entries have the same name, the names of Token.sort(...) and of
\* Token.sortCurrencies(...) are Token.sortTokenNames of the names of the same
\* inputs: same length, same order.
C10_SortsAgree ==
  /\ Called("sort")
       => NamesOf(ret.val) = sortTokenNames(NamesOf(input.tokens))
  /\ Called("sortCurrencies")
       => /\ IsReturn(ret)
          /\ CurrencyNames(ret.val) = sortTokenNames(CurrencyNames(input.currencies))

\* C11: a token's decimals are 18 only when none were specified: a token built
\* by the constructor, Token.create or Token.fromCurrencyName with decimals d,
\* d = 0 included, has decimals d; and one built by fromCurrencyName has the
\* kind getCurrencyTypeByName gives for its name.
C11_DecimalsAsGiven ==
  /\ (pc \in {"Token", "create", "fromCurrencyName"} /\ Has(input.configs, "decimals"))
       => ret.val.decimals = input.configs.decimals
  /\ Called("fromCurrencyName") => ret.val.type = getCurrencyTypeByName(input.n)

\* C12: ready gate: no continuous or one-shot query of the Wallet (token list,
\* single token, balance, issuance, price) delivers a value while isReady is
\* false.
C12_ReadyGate == \A o \in Observers : obs[o].out # <<>> => isReady

\* a step in which getPresetTokens was called
PresetCall == ret' # NoResult

\* an observer that subscribed to a continuous form and has not left
Continuous(o) == o.st # "idle" /\ ~o.once /\ o.st # "closed"

\* what C13 says of a step
SnapshotNeedsReady ==
  /\ (PresetCall /\ ~isReady) =>
       /\ ret' = Throw("SDKNotReady", <<119, 97, 108, 108, 101, 116>>)
       /\ UNCHANGED <<isReady, tokenRecord, meta, streams, config>>
       /\ \A o \in Observers : obs'[o] = Fresh(obs[o])
  /\ (PresetCall /\ isReady) => ~Threw(ret', "SDKNotReady")
  /\ ~isReady' =>
       \A o \in Observers :
         Continuous(obs'[o]) => (obs'[o].st = "active" /\ obs'[o].out = <<>>)

\* C13: while isReady is false getPresetTokens fails at once with SDKNotReady and
\* leaves the wallet's state as it was; once isReady is true it does not fail
\* with SDKNotReady; and the continuous forms called before ready do not fail
\* but deliver nothing until ready.
C13_SnapshotNeedsReady == [][SnapshotNeedsReady]_vars

\* the observer's chain is handed the token record in this step: it subscribes
\* to a ready wallet, or it is subscribed and the record is rebuilt
Receives(o) ==
  \/ obs[o].st = "idle" /\ obs'[o].st # "idle" /\ isReady
  \/ obs[o].st = "active" /\ isReady' /\ (TradingPairsNext \/ AssetMetadatasNext)

\* what C14 says of a step and of a token, balance or issuance query
ResolvesByName(o) ==
  (Receives(o) /\ obs'[o].op \in {"token", "balance", "issuance"}) =>
    IF obs'[o].key \notin DOMAIN tokenRecord'
    THEN /\ obs'[o].st = "error"
         /\ obs'[o].err = [error |-> "CurrencyNotFound", about |-> obs'[o].key]
    ELSE /\ obs'[o].err.error # "CurrencyNotFound"
         /\ (obs'[o].st = "active" /\ obs'[o].op # "token") =>
              obs'[o].toks = <<<<tokenRecord'[obs'[o].key]>>>>
         /\ obs'[o].op = "token" =>
              /\ obs'[o].out # <<>>
              /\ \A i \in 1..Len(obs'[o].out) :
                   obs'[o].out[i] = TokenValue(tokenRecord'[obs'[o].key])
         /\ obs'[o].op = "balance" =>
              \A i \in 1..Len(obs'[o].out) :
                obs'[o].out[i].data.token = tokenRecord'[obs'[o].key]

\* C14: after the wallet is ready, a token, balance or issuance query for a name
\* that is not in the current token record fails with CurrencyNotFound for that
\* name, and a query for a name in the record delivers the Token stored under
\* that name.
C14_ResolvesByName == [][\A o \in Observers : ResolvesByName(o)]_vars

\* C14 witness: one query has failed with CurrencyNotFound for its name while
\* another was handed the stored Token of its name.
C14_Witness ==
  /\ isReady
  /\ obs["a"].st = "error" /\ obs["a"].err = [error |-> "CurrencyNotFound", about |-> Unknown]
  /\ LpName \in DOMAIN tokenRecord
  /\ obs["b"].op = "token" /\ obs["b"].out = <<TokenValue(tokenRecord[LpName])>>

\* two observers watch the same view: same operation, same key arguments
SameView(o, p) == o.op = p.op /\ o.key = p.key /\ o.arg = p.arg

\* the observers that currently watch the view of observer o
Watching(o) == {p \in Observers : obs[p].st = "active" /\ SameView(obs[p], obs[o])}

\* the observers of the view of o whose pipe is subscribed to tokens$ now
Connected(o) == {p \in Watching(o) : obs[p].chains[1].inner}

\* C15: however many observers watch a continuous view (same operation, same
\* key arguments), the view holds at most one subscription to the token record
C15_SharedViews ==
  \A o \in Observers : obs[o].st = "active" => Cardinality(Connected(o)) <= 1

\* observer o subscribes in this step, to a ready wallet
Joins(o) == obs[o].st = "idle" /\ obs'[o].st # "idle" /\ isReady

\* the observer that joins is handed the current token record in that step
LateReplay(o) ==
  Joins(o) =>
    /\ obs'[o].op = "tokens" =>
          obs'[o].out = <<TokensValue(FilterType(tokenRecord, obs'[o].arg))>>
    /\ (obs'[o].op = "token" /\ obs'[o].key \in DOMAIN tokenRecord) =>
          obs'[o].out = <<TokenValue(tokenRecord[obs'[o].key])>>

\* two continuous observers of the same view are handed the same values in
\* the same order by every step
SameUpdates(o, p) ==
  (/\ obs[o].st = "active" /\ obs'[o].st = "active" /\ ~obs[o].once
   /\ obs[p].st = "active" /\ obs'[p].st = "active" /\ ~obs[p].once
   /\ obs[o].op \in {"tokens", "token"} /\ SameView(obs[o], obs[p]))
    => obs'[o].out = obs'[p].out

LateSubscriber ==
  \A o \in Observers : LateReplay(o) /\ \A p \in Observers : SameUpdates(o, p)

\* C16: an observer subscribing to the token list or to a token of a ready
\* wallet receives the current token record at once, and afterwards the same
\* updates in the same order as the earlier observers of that view
C16_LateSubscriber == [][LateSubscriber]_vars

\* b joined the token list after a had seen an update and was handed the
\* record, dex share included, on joining
C16_Witness ==
  /\ isReady /\ LpName \in DOMAIN tokenRecord
  /\ obs["a"].st = "active" /\ obs["a"].op = "tokens" /\ obs["a"].out = <<>>
  /\ obs["a"].chains[1].conns = 2
  /\ obs["b"].st = "active" /\ SameView(obs["a"], obs["b"])
  /\ obs["b"].chains[1].conns = 1
  /\ obs["b"].out = <<TokensValue(FilterType(tokenRecord, obs["b"].arg))>>

\* the upstream subscriptions the chains of observer o still hold: to
\* isReady$, to tokens$ (through shareReplay) and to the streams
Upstream(o) ==
  \/ \E i \in DOMAIN obs[o].chains : obs[o].chains[i].ready \/ obs[o].chains[i].conns > 0
  \/ obs[o].subs # {}

\* C17: a continuous view that has no observer left holds no upstream
\* subscription, neither to the token record nor to storage
C17_Released ==
  \A o \in Observers :
    (obs[o].st = "closed" /\ Watching(o) = {}) => ~Upstream(o)

\* C18: once the trading-pair or asset-metadata storage has failed no observer
\* is still waiting on a view (all are derived from the token record), and no
\* observer is still waiting on a balance or issuance stream that has failed
C18_FaultTerminates ==
  \A o \in Observers :
    /\ ~meta.alive => obs[o].st # "active"
    /\ \A s \in obs[o].subs : StateOf(s).failed => obs[o].st # "active"

\* the query of observer p has ended with CurrencyNotFound
Lost(p) == obs'[p].st = "error" /\ obs'[p].err.error = "CurrencyNotFound"

\* the record is pushed to a ready wallet in this step
RecordUpdate == isReady' /\ (TradingPairsNext \/ AssetMetadatasNext)

\* observer o, continuous and with a key the new record resolves, is handed
\* the update of this step: the new record (list or stored Token), or the
\* value a balance or issuance storage pushes
Served(o) ==
  LET d == obs[o]
      e == obs'[o]
  IN  (d.st = "active" /\ ~d.once) =>
        /\ (RecordUpdate /\ d.op = "tokens") =>
              /\ e.st = "active" /\ e.out # <<>>
              /\ \A i \in DOMAIN e.out :
                    e.out[i] = TokensValue(FilterType(tokenRecord', d.arg))
        /\ (RecordUpdate /\ d.op = "token" /\ d.key \in DOMAIN tokenRecord') =>
              /\ e.st = "active" /\ e.out # <<>>
              /\ \A i \in DOMAIN e.out : e.out[i] = TokenValue(tokenRecord'[d.key])
        /\ \A s \in d.subs :
              (StreamPush /\ streams'[s] # streams[s]) =>
                 e.st = "active" /\ e.out = <<Data(d, s, streams'[s].val)>>

Isolated ==
  \A p \in Observers : Lost(p) => \A o \in Observers \ {p} : Served(o)

\* C19: after an observer's query has ended with CurrencyNotFound, the
\* observers of the token list and of queries with a resolvable key are still
\* handed every later update
C19_Isolated == [][Isolated]_vars

\* a failed with CurrencyNotFound before the last record update, which b, an
\* observer of a stored token, was handed
C19_Witness ==
  /\ obs["a"].st = "error" /\ obs["a"].err.error = "CurrencyNotFound"
  /\ obs["a"].out = <<>>
  /\ obs["b"].st = "active" /\ obs["b"].op = "token" /\ obs["b"].key # obs["a"].key
  /\ obs["b"].chains[1].conns = 2
  /\ obs["b"].out # <<>>

\* observer o asks, or has asked, for a price whose resolved provider type
\* has no provider configured
Unpriced(o) ==
  /\ obs'[o].op = "price"
  /\ ResolvedType(obs'[o].arg, obs'[o].key) \notin config.providers

\* such a query is handed the zero amount when it is made, and is never failed
ZeroPrice ==
  \A o \in Observers :
    Unpriced(o) =>
      /\ obs'[o].st # "error" /\ obs'[o].err = NoError
      /\ obs[o].st = "idle" =>
            /\ obs'[o].out = <<AmountValue(ZERO)>>
            /\ obs'[o].st \in {"complete", "closed"}

\* C20: when no PriceProvider is configured for the resolved provider type,
\* subscribePrice and getPrice deliver the zero amount and never an error,
\* for basic and for dex-share names
C20_ZeroPrice == [][ZeroPrice]_vars

\* the price of a dex share was asked with the market provider missing and
\* zero was delivered
C20_Witness ==
  /\ MARKET \notin config.providers /\ ORACLE \in config.providers
  /\ obs["a"].op = "price" /\ obs["a"].key = LpName /\ obs["a"].arg = NotGiven
  /\ obs["a"].out = <<AmountValue(ZERO)>>
  /\ obs["a"].st = "complete"

\* the storage stream a balance of token t is read from
BalanceStream(t) == IF nativeCurrency = t.name THEN nativeBalance ELSE nonNativeBalance(t)

\* the locked amount of the latest storage value v for token t
LockedOf(t, v) ==
  IF nativeCurrency = t.name
  THEN IF v.miscFrozen >= v.feeFrozen THEN v.miscFrozen ELSE v.feeFrozen
  ELSE v.frozen

\* the snapshot d is the one of the latest value of its storage stream
Snapshot(d) ==
  LET v == StateOf(BalanceStream(d.token))
  IN  /\ v.has
      /\ d.free = v.val.free
      /\ d.reserved = v.val.reserved
      /\ d.locked = LockedOf(d.token, v.val)
      /\ d.available = (IF d.free - d.locked >= 0 THEN d.free - d.locked ELSE 0)
      /\ d.available >= 0

\* C21: every BalanceData handed to an observer has available =
\* max(free - locked, 0) >= 0, with locked = max(miscFrozen, feeFrozen) for the
\* native token and locked = frozen for any other, computed from the latest
\* storage value and for the stored token of the queried name
C21_BalanceSnapshot ==
  \A o \in Observers :
    obs[o].op = "balance" =>
      \A i \in DOMAIN obs[o].out :
        /\ obs[o].out[i].kind = "balance"
        /\ obs[o].key \in DOMAIN tokenRecord
        /\ obs[o].out[i].data.token = tokenRecord[obs[o].key]
        /\ Snapshot(obs[o].out[i].data)

\* a was handed the balance of a token other than the native one with more
\* frozen than free, while b watches the native balance, whose latest value
\* has more frozen than free too
C21_Witness ==
  /\ obs["a"].op = "balance" /\ obs["a"].key # nativeCurrency
  /\ obs["a"].out # <<>>
  /\ obs["a"].out[1].data.free < obs["a"].out[1].data.locked
  /\ obs["a"].out[1].data.available = 0
  /\ obs["b"].op = "balance" /\ obs["b"].key = nativeCurrency
  /\ obs["b"].st = "active"
  /\ StateOf(nativeBalance).has
  /\ StateOf(nativeBalance).val.free < StateOf(nativeBalance).val.miscFrozen

\* the list of the latest values of the two metadata streams
LatestList == createTokenList(basicTokens, meta.tp[1])

\* C22: whenever isReady is true the token record is the whole list built from
\* the most recent trading pairs and asset metadata, not the initial empty
\* record and not a mix of two updates; a token list handed out is that record
C22_WholeRecord ==
  isReady =>
    /\ meta.am /\ meta.tp # <<>>
    /\ tokenRecord = LatestList
    /\ tokenRecord # EmptyRecord
    /\ \A o \in Observers :
         (obs[o].op = "tokens" /\ obs[o].arg = NotGiven) =>
            \A i \in DOMAIN obs[o].out : obs[o].out[i] = TokensValue(LatestList)

\* a, connected since an earlier update, was handed the record of an update
\* that came without trading pairs
C22_Witness ==
  /\ isReady /\ meta.tp = <<<<>>>>
  /\ LpName \notin DOMAIN tokenRecord
  /\ obs["a"].op = "tokens" /\ obs["a"].arg = NotGiven /\ obs["a"].st = "active"
  /\ obs["a"].chains[1].conns = 2
  /\ obs["a"].out # <<>>

\* a continuous observer of subscribeTokens, subscribed before the step and
\* after it, is handed the record of a metadata update once
OncePerUpdate ==
  \A o \in Observers :
    (/\ RecordUpdate
     /\ obs[o].st = "active" /\ obs[o].op = "tokens" /\ ~obs[o].once
     /\ obs'[o].st = "active")
      => Len(obs'[o].out) = 1

\* C23: every combined (tradingPairs, assetMetadatas) emission is delivered
\* exactly once to each observer of subscribeTokens that is subscribed across it
C23_OncePerUpdate == [][OncePerUpdate]_vars

\* the provider type a price query is to use: the one passed, else the one
\* configured for the name, else the market one
Selected(type, n) ==
  IF type # NotGiven THEN type
  ELSE IF n \in DOMAIN config.source THEN config.source[n]
  ELSE MARKET

\* C24: a price query for a basic name reads the provider of the type passed
\* by the caller, else of the type configured for the name, else the market
\* provider; it is answered with the constant zero only if that provider is
\* missing
C24_ProviderSelection ==
  \A o \in Observers :
    (obs[o].op = "price" /\ ~isDexShareName(obs[o].key)) =>
      /\ \A s \in obs[o].subs :
            s.fam = "price" => s.ptype = Selected(obs[o].arg, obs[o].key)
      /\ obs[o].st = "complete" => Selected(obs[o].arg, obs[o].key) \notin config.providers

\* the two legs a dex-share name decodes to
Decoded(n) == {unzipDexShareName(n).val[1], unzipDexShareName(n).val[2]}

\* every call below the top is waiting for a call on one of the legs its name
\* decodes to; a leg that is a dex-share name again is shorter than the name
\* by the prefix and the separator at least; the stack is never deeper than
\* the original name is long
BoundedDepth ==
  /\ \A i \in 1..(Len(calls) - 1) :
        /\ isDexShareName(calls[i].n)
        /\ calls[i + 1].n \in Decoded(calls[i].n)
        /\ isDexShareName(calls[i + 1].n) => Len(calls[i + 1].n) + 6 <= Len(calls[i].n)
  /\ calls # <<>> => calls[1].n = input.n
  /\ Len(calls) <= Len(input.n)
  /\ Len(calls) <= (Len(input.n) \div 6) + 1

\* a bound on the steps the call inner(n) takes
StepsOf(n) == IF isDexShareName(n) THEN Len(n) ELSE 1

\* the steps call i of the stack has before it, the calls above it left out:
\* all of them when it has not run, else one for each leg not yet called,
\* the steps of that leg, and one to return
StepsLeft(i) ==
  LET f == calls[i]
      next == Len(f.vals) + (IF i < Len(calls) THEN 1 ELSE 0) + 1
  IN  IF f.legs = <<>> THEN StepsOf(f.n)
      ELSE 1 + (IF next <= 1 THEN 1 + StepsOf(f.legs[1]) ELSE 0)
             + (IF next <= 2 THEN 1 + StepsOf(f.legs[2]) ELSE 0)

RECURSIVE StepsFrom(_)
StepsFrom(i) == IF i > Len(calls) THEN 0 ELSE StepsLeft(i) + StepsFrom(i + 1)

\* the measure of the recursion: a natural number
Measure == StepsFrom(1)

\* a call that has not returned can take a step
CanStep ==
  /\ calls # <<>>
  /\ Top.legs # <<>> => Len(Top.vals) <= 2

\* every step of a running call lowers the measure
Decreases == pc = "inner" => Measure' < Measure

\* the call has returned a structure or has failed, as the function does
Finished ==
  /\ calls = <<>>
  /\ IsReturn(ret) \/ IsThrow(ret)
  /\ ret = getCurrencyObject(input.n)

\* C25: getCurrencyObject terminates on every input string, returning a
\* structure or failing: each recursive call is made on a leg decoded from a
\* dex-share name, the recursion is never deeper than the name is long, a
\* running call can always take a step and every step lowers a measure that
\* starts at the length of the name
C25_Terminates ==
  /\ [](pc = "inner" => (BoundedDepth /\ CanStep /\ Measure <= Len(input.n)))
  /\ [](pc = "getCurrencyObject" => Finished)
  /\ [][Decreases]_vars

\* a name with a dex-share leg has been taken apart: the structure returned
\* holds a DexShare inside a DexShare
C25_Witness ==
  /\ pc = "getCurrencyObject" /\ calls = <<>>
  /\ isDexShareName(input.n)
  /\ IsReturn(ret)
  /\ \E i \in 1..2 : "DexShare" \in DOMAIN ret.val.DexShare[i]

====
